---------------------------- MODULE Spec2Model ----------------------------
(***************************************************************************)
(* Model of the anipaca HLS proxy (src/api/proxy.ts, src/api/proxy.js).    *)
(*                                                                         *)
(* Strings are sequences of one-character strings, so that startsWith,     *)
(* endsWith, includes, lastIndexOf, trim, split, the URI="..." regular     *)
(* expression and encodeURIComponent are computed character by character   *)
(* as the JavaScript does.                                                 *)
(*                                                                         *)
(* Two specifications:                                                     *)
(*   RewriteSpec  the pure function processM3U8 applied once and twice to  *)
(*                playlists drawn from a bounded set;                      *)
(*   Spec         one request through one of the four handler variants,    *)
(*                one action per synchronous stretch between two awaits.   *)
(***************************************************************************)
EXTENDS Integers, Sequences, FiniteSets, TLC

VARIABLES
    \* ---- RewriteSpec: processM3U8(content, baseUrl, targetUrl)
    content,      \* the playlist text
    baseUrl,      \* the proxy base URL
    targetUrl,    \* the URL the playlist was fetched from
    out1,         \* processM3U8(content, baseUrl, targetUrl)
    out2,         \* processM3U8(out1, baseUrl, targetUrl)
    rpc,          \* "in", "once", "twice"
    \* ---- Spec: handler(req, res)
    variant,      \* which handler of the repository serves the request
    req,          \* the inbound request
    pc,           \* position of the handler
    fetched,      \* the upstream requests issued so far (a sequence)
    response,     \* the upstream response, once fetch has resolved
    res,          \* the outbound response: status, headers, body
    sends,        \* number of times a response was sent
    failure       \* the message of the exception caught, Absent if none

rvars == <<content, baseUrl, targetUrl, out1, out2, rpc>>
hvars == <<variant, req, pc, fetched, response, res, sends, failure>>
vars == <<content, baseUrl, targetUrl, out1, out2, rpc,
          variant, req, pc, fetched, response, res, sends, failure>>

None == "<none>"

\* an absent header, query parameter or JSON field (undefined / null), as a
\* value of the type of the strings; the empty string '' is <<>>
Absent == <<"<absent>">>

\* JavaScript truthiness of an optional string
truthy(v) == v # Absent /\ v # <<>>

(***************************************************************************)
(* Bounds of the model.                                                    *)
(***************************************************************************)
MaxLines == 2

(***************************************************************************)
(* JavaScript String methods.  Indices are 1-based; 0 stands for -1.       *)
(* Intermediate values are passed as operator parameters, which TLC        *)
(* evaluates once.                                                         *)
(***************************************************************************)
LF == "\n"
CR == "\r"

minOf(S) == CHOOSE i \in S : \A j \in S : i <= j
maxOf(S) == CHOOSE i \in S : \A j \in S : i >= j
minOr(S, none) == IF S = {} THEN none ELSE minOf(S)
maxOr(S, none) == IF S = {} THEN none ELSE maxOf(S)

startsWith(s, p) == Len(s) >= Len(p) /\ SubSeq(s, 1, Len(p)) = p

endsWith(s, p) == Len(s) >= Len(p) /\ SubSeq(s, Len(s) - Len(p) + 1, Len(s)) = p

indexOf(s, p) ==
    minOr({i \in 1..(Len(s) - Len(p) + 1) : SubSeq(s, i, i + Len(p) - 1) = p}, 0)

includes(s, p) == indexOf(s, p) # 0

lastIndexOf(s, c) == maxOr({i \in 1..Len(s) : s[i] = c}, 0)

\* the first index at which one of the characters of cs occurs, Len(s)+1 if none
firstOf(s, cs) == minOr({i \in 1..Len(s) : s[i] \in cs}, Len(s) + 1)

WhiteSpace == {" ", "\t", LF, CR}

trimTo(s, keep) == IF keep = {} THEN <<>> ELSE SubSeq(s, minOf(keep), maxOf(keep))

trim(s) == trimTo(s, {i \in 1..Len(s) : s[i] \notin WhiteSpace})

\* content.split(/\r?\n/); i is the index of the first line feed
RECURSIVE split(_)
splitAt(s, i) ==
    IF i = 0 THEN <<s>>
    ELSE <<SubSeq(s, 1, IF i > 1 /\ s[i - 1] = CR THEN i - 2 ELSE i - 1)>>
            \o split(SubSeq(s, i + 1, Len(s)))

split(s) == splitAt(s, indexOf(s, <<LF>>))

\* lines.join(sep)
RECURSIVE join(_, _)
join(lines, sep) ==
    IF Len(lines) = 0 THEN <<>>
    ELSE IF Len(lines) = 1 THEN lines[1]
    ELSE lines[1] \o sep \o join(Tail(lines), sep)

(***************************************************************************)
(* encodeURIComponent: every character but A-Z a-z 0-9 - _ . ! ~ * ' ( )   *)
(* becomes %XX.  The table holds the escaped characters of the alphabet    *)
(* the model's strings are written in.                                     *)
(***************************************************************************)
encodeChar(c) ==
    CASE c = ":"  -> <<"%","3","A">>
      [] c = "/"  -> <<"%","2","F">>
      [] c = "?"  -> <<"%","3","F">>
      [] c = "="  -> <<"%","3","D">>
      [] c = "%"  -> <<"%","2","5">>
      [] c = "#"  -> <<"%","2","3">>
      [] c = ","  -> <<"%","2","C">>
      [] c = " "  -> <<"%","2","0">>
      [] c = "&"  -> <<"%","2","6">>
      [] c = "+"  -> <<"%","2","B">>
      [] c = ";"  -> <<"%","3","B">>
      [] c = "@"  -> <<"%","4","0">>
      [] c = "\"" -> <<"%","2","2">>
      [] OTHER    -> <<c>>

RECURSIVE encodeURIComponent(_)
encodeURIComponent(s) ==
    IF s = <<>> THEN <<>> ELSE encodeChar(Head(s)) \o encodeURIComponent(Tail(s))

(***************************************************************************)
(* new URL(input) and new URL(input, base).href of the WHATWG URL parser,  *)
(* for URLs written in lower case without userinfo, port, fragment, "." or *)
(* ".." segments or characters the parser would escape (the URLs of the    *)
(* model), where serialising the parsed URL gives back its parts.          *)
(***************************************************************************)
Letters == {"a","b","c","d","e","f","g","h","i","j","k","l","m",
            "n","o","p","q","r","s","t","u","v","w","x","y","z"}
Digits == {"0","1","2","3","4","5","6","7","8","9"}

\* index of the ":" that ends the scheme of s, 0 if s starts with no scheme;
\* i is the index of the first ":"
schemeEndAt(s, i) ==
    IF /\ i >= 2 /\ i <= Len(s)
       /\ s[1] \in Letters
       /\ \A j \in 2..(i - 1) : s[j] \in Letters \cup Digits \cup {"+", "-", "."}
    THEN i ELSE 0

schemeEnd(s) == schemeEndAt(s, firstOf(s, {":"}))

NoURL == [ok |-> FALSE, scheme |-> <<>>, hostname |-> <<>>, pathname |-> <<>>,
          search |-> <<>>]

\* the path and query of a URL with an authority; q is the index of the "?"
urlPath(scheme, host, tl, q) ==
    [ok |-> TRUE, scheme |-> scheme, hostname |-> host,
     pathname |-> IF q = 1 THEN <<"/">> ELSE SubSeq(tl, 1, q - 1),
     search |-> SubSeq(tl, q, Len(tl))]

\* the authority of a URL; h is the index of the character that ends the host
urlHost(scheme, auth, h) ==
    IF h = 1 THEN NoURL     \* empty host
    ELSE urlPath(scheme, SubSeq(auth, 1, h - 1), SubSeq(auth, h, Len(auth)),
                 firstOf(SubSeq(auth, h, Len(auth)), {"?"}))

urlRest(scheme, rest) ==
    IF startsWith(rest, <<"/","/">>)
    THEN urlHost(scheme, SubSeq(rest, 3, Len(rest)), firstOf(SubSeq(rest, 3, Len(rest)), {"/", "?"}))
    ELSE \* an opaque path ("data:...")
         [ok |-> TRUE, scheme |-> scheme, hostname |-> <<>>, pathname |-> rest,
          search |-> <<>>]

urlScheme(s, n) ==
    IF n = 0 THEN NoURL ELSE urlRest(SubSeq(s, 1, n - 1), SubSeq(s, n + 1, Len(s)))

\* new URL(s): the parsed URL, or NoURL where the constructor throws
URL(s) == urlScheme(s, schemeEnd(s))

\* url.href
href(u) ==
    IF u.hostname = <<>> THEN u.scheme \o <<":">> \o u.pathname
    ELSE u.scheme \o <<":","/","/">> \o u.hostname \o u.pathname \o u.search

\* url.origin
origin(u) == u.scheme \o <<":","/","/">> \o u.hostname

\* the absolute form of a reference without scheme against the parsed base b
relative(input, b) ==
    IF startsWith(input, <<"/","/">>) THEN b.scheme \o <<":">> \o input
    ELSE IF startsWith(input, <<"/">>) THEN origin(b) \o input
    ELSE IF startsWith(input, <<"?">>) THEN origin(b) \o b.pathname \o input
    ELSE origin(b) \o SubSeq(b.pathname, 1, lastIndexOf(b.pathname, "/")) \o input

resolve(input, b) ==
    IF ~b.ok THEN NoURL                                      \* invalid base URL
    ELSE IF schemeEnd(input) = 0 /\ b.hostname = <<>> THEN NoURL \* base cannot be a base
    ELSE IF input = <<>> THEN b
    ELSE URL(IF schemeEnd(input) # 0 THEN input ELSE relative(input, b))

\* new URL(input, base): the parsed URL, or NoURL where the constructor throws
URLWithBase(input, base) == resolve(input, URL(base))

(***************************************************************************)
(* processM3U8                                                             *)
(***************************************************************************)
hrefOr(u, fallback) == IF u.ok THEN href(u) ELSE fallback

\* uri.startsWith('http') ? uri : new URL(uri, base).href, catch: uri
uriAbs(uri, base) ==
    IF startsWith(uri, <<"h","t","t","p">>) THEN uri ELSE hrefOr(URLWithBase(uri, base), uri)

\* `URI="${baseUrl}?url=${encodeURIComponent(abs)}"`
uriAttr(bUrl, abs) == <<"U","R","I","=","\"">> \o bUrl \o <<"?","u","r","l","=">> \o encodeURIComponent(abs) \o <<"\"">>

\* line.replace(/URI="([^"]+)"/g, (match, uri) => ...): i is the index of the first
\* URI=" of the line, tl what follows it and q the index of the next quote in tl
RECURSIVE replaceURI(_, _, _)
replaceMatch(line, bUrl, base, i, tl, q) ==
    IF q > Len(tl) \/ q = 1
    THEN \* no match at i: the scan goes on one character further
         SubSeq(line, 1, i) \o replaceURI(SubSeq(line, i + 1, Len(line)), bUrl, base)
    ELSE SubSeq(line, 1, i - 1)
            \o uriAttr(bUrl, uriAbs(SubSeq(tl, 1, q - 1), base))
            \o replaceURI(SubSeq(tl, q + 1, Len(tl)), bUrl, base)

replaceFrom(line, bUrl, base, i) ==
    IF i = 0 THEN line
    ELSE replaceMatch(line, bUrl, base, i, SubSeq(line, i + 5, Len(line)),
                      firstOf(SubSeq(line, i + 5, Len(line)), {"\""}))

replaceURI(line, bUrl, base) == replaceFrom(line, bUrl, base, indexOf(line, <<"U","R","I","=","\"">>))

\* `${baseUrl}?url=${encodeURIComponent(abs)}`
proxied(bUrl, abs) == bUrl \o <<"?","u","r","l","=">> \o encodeURIComponent(abs)

proxiedOr(bUrl, u, line) == IF u.ok THEN proxied(bUrl, href(u)) ELSE line

\* the try block of the segment branch; catch: return line
segment(line, trm, bUrl, base) ==
    IF startsWith(trm, <<"h","t","t","p">>) THEN proxied(bUrl, trm)
    ELSE IF startsWith(trm, <<"/","/">>) THEN proxied(bUrl, <<"h","t","t","p","s",":">> \o trm)
    ELSE proxiedOr(bUrl, URLWithBase(trm, base), line)

\* the callback of lines.map, trm being line.trim()
processTrimmed(line, trm, bUrl, base) ==
    IF includes(line, <<"U","R","I","=","\"">>) THEN replaceURI(line, bUrl, base)
    ELSE IF trm # <<>> /\ ~startsWith(trm, <<"#">>) /\ ~startsWith(trm, bUrl)
    THEN segment(line, trm, bUrl, base)
    ELSE line

processLine(line, bUrl, base) == processTrimmed(line, trim(line), bUrl, base)

\* targetUrl.substring(0, targetUrl.lastIndexOf('/') + 1)
basePath(tUrl) == SubSeq(tUrl, 1, lastIndexOf(tUrl, "/"))

mapLines(lines, bUrl, base) == [k \in 1..Len(lines) |-> processLine(lines[k], bUrl, base)]

processM3U8(cnt, bUrl, tUrl) == join(mapLines(split(cnt), bUrl, basePath(tUrl)), <<LF>>)

(***************************************************************************)
(* Inputs of the model.                                                    *)
(***************************************************************************)
ProxyHost == <<"h",".","i","o">>
ProxyBase == <<"h","t","t","p","s",":","/","/">> \o ProxyHost \o <<"/","a","p","i","/","p","r","o","x","y">>

T_index   == <<"h","t","t","p","s",":","/","/","a",".","c","o","m","/","p","/","i",".","m","3","u","8">>
T_query   == <<"h","t","t","p","s",":","/","/","a",".","c","o","m","/","p","/","v",".","m","3","u","8","?","t","=","1">>
T_param   == <<"h","t","t","p","s",":","/","/","a",".","c","o","m","/","x","?","f","=",".","m","3","u","8">>
T_seg     == <<"h","t","t","p","s",":","/","/","a",".","c","o","m","/","p","/","s",".","t","s">>
T_nopath  == <<"h","t","t","p","s",":","/","/","a",".","c","o","m">>
T_kwik    == <<"h","t","t","p","s",":","/","/","x",".","k","w","i","k","i","e",".","r","u","/","s",".","t","s">>
T_anih    == <<"h","t","t","p","s",":","/","/","e","e",".","a","n","i","h","1",".","t","o","p","/","k">>
T_bad     == <<"n","o","t","-","a","-","u","r","l">>

L_tag     == <<"#","E","X","T","M","3","U">>
L_blank   == <<>>
L_rel     == <<"s","e","g","1",".","t","s">>
L_pad     == <<" ","s","e","g","1",".","t","s"," ">>
L_root    == <<"/","r","/","s","3",".","t","s">>
L_srel    == <<"/","/","c",".","i","o","/","s","2",".","t","s">>
L_abs     == <<"h","t","t","p",":","/","/","b",".","c","o","m","/","s",".","t","s">>
L_httpdir == <<"h","t","t","p","d","/","s","4",".","t","s">>
L_key     == <<"#","E","X","T","-","X","-","K","E","Y",":","M","E","T","H","O","D","=","A","E","S","-","1","2","8",",","U","R","I","=","\"","k","e","y",".","b","i","n","\"">>
L_two     == <<"#","X",":","U","R","I","=","\"","k","1","\"",",","A","=","1",",","U","R","I","=","\"","h","t","t","p",":","/","/","b",".","c","o","m","/","k","2","\"">>
L_empty   == <<"#","X",":","U","R","I","=","\"","\"",",","U","R","I","=","\"","k","3","\"">>
L_httpkey == <<"#","X",":","U","R","I","=","\"","h","t","t","p","k","/","k",".","b","i","n","\"">>

Lines == {L_tag, L_blank, L_rel, L_pad, L_root, L_srel, L_abs, L_httpdir,
          L_key, L_two, L_empty, L_httpkey}

LineEndings == {<<LF>>, <<CR, LF>>}

RECURSIVE LineSeqs(_)
extend(shorter, n) ==
    shorter \cup {Append(ls, l) : ls \in {x \in shorter : Len(x) = n - 1}, l \in Lines}

LineSeqs(n) == IF n = 0 THEN {<<>>} ELSE extend(LineSeqs(n - 1), n)

Playlists == {join(ls, e) : ls \in LineSeqs(MaxLines) \ {<<>>}, e \in LineEndings}

RewriteTargets == {T_index, T_query, T_nopath}

(***************************************************************************)
(* RewriteSpec: processM3U8 applied to a playlist, then to its own output. *)
(***************************************************************************)
HandlerIdle ==
    /\ variant = None /\ req = None /\ pc = "idle" /\ fetched = <<>>
    /\ response = None /\ res = None /\ sends = 0 /\ failure = Absent

RewriteInit ==
    /\ content \in Playlists
    /\ baseUrl = ProxyBase
    /\ targetUrl \in RewriteTargets
    /\ out1 = None /\ out2 = None /\ rpc = "in"
    /\ HandlerIdle

RewriteOnce ==
    /\ rpc = "in"
    /\ out1' = processM3U8(content, baseUrl, targetUrl)
    /\ rpc' = "once"
    /\ UNCHANGED <<content, baseUrl, targetUrl, out2>>
    /\ UNCHANGED hvars

RewriteTwice ==
    /\ rpc = "once"
    /\ out2' = processM3U8(out1, baseUrl, targetUrl)
    /\ rpc' = "twice"
    /\ UNCHANGED <<content, baseUrl, targetUrl, out1>>
    /\ UNCHANGED hvars

RewriteNext == RewriteOnce \/ RewriteTwice

RewriteSpec == RewriteInit /\ [][RewriteNext]_vars


(***************************************************************************)
(* The handlers.                                                           *)
(***************************************************************************)
TsDefault == "proxy.ts default export"      \* src/api/proxy.ts:69
TsSimple  == "proxy.ts node-fetch handler"  \* src/api/proxy.ts:167
JsDefault == "proxy.js default export"      \* src/api/proxy.js:69
JsModule  == "proxy.js module.exports"      \* src/api/proxy.js:232

Variants == {TsDefault, TsSimple, JsDefault, JsModule}
FullVariants == {TsDefault, JsDefault, JsModule}

ACAO == "Access-Control-Allow-Origin"
ACAM == "Access-Control-Allow-Methods"
ACAH == "Access-Control-Allow-Headers"
ACEH == "Access-Control-Expose-Headers"
CorsNames == {ACAO, ACAM, ACAH, ACEH}
ResHeaderNames == CorsNames \cup {"Content-Type", "Content-Length", "Content-Range",
                                  "Accept-Ranges", "Cache-Control"}
ReqHeaderNames == {"User-Agent", "Accept", "Accept-Language", "origin", "referer", "Range"}
JsonFields == {"error", "usage", "example", "message", "target"}

CORS_HEADERS ==
    [n \in CorsNames |->
        CASE n = ACAO -> <<"*">>
          [] n = ACAM -> <<"G","E","T",","," ","P","O","S","T",","," ","O","P","T","I","O","N","S">>
          [] n = ACAH -> <<"C","o","n","t","e","n","t","-","T","y","p","e",","," ","R","a","n","g","e",","," ","A","u","t","h","o","r","i","z","a","t","i","o","n">>
          [] n = ACEH -> <<"C","o","n","t","e","n","t","-","L","e","n","g","t","h",","," ","C","o","n","t","e","n","t","-","R","a","n","g","e">>]

DOMAIN_HEADERS ==
    << [domain |-> <<"k","w","i","k","i","e",".","r","u">>,      origin |-> <<"h","t","t","p","s",":","/","/","k","w","i","k",".","s","i">>,           referer |-> <<"h","t","t","p","s",":","/","/","k","w","i","k",".","s","i","/">>],
       [domain |-> <<"k","r","u","s","s","d","o","m","i",".","c","o","m">>,  origin |-> <<"h","t","t","p","s",":","/","/","h","l","s",".","k","r","u","s","s","d","o","m","i",".","c","o","m">>, referer |-> <<"h","t","t","p","s",":","/","/","h","l","s",".","k","r","u","s","s","d","o","m","i",".","c","o","m","/">>],
       [domain |-> <<"m","e","g","a","c","l","o","u","d",".","b","l","o","g">>, origin |-> <<"h","t","t","p","s",":","/","/","m","e","g","a","c","l","o","u","d",".","b","l","o","g">>,    referer |-> <<"h","t","t","p","s",":","/","/","m","e","g","a","c","l","o","u","d",".","b","l","o","g","/">>],
       [domain |-> <<"m","e","g","a","c","l","o","u","d",".","c","l","u","b">>, origin |-> <<"h","t","t","p","s",":","/","/","m","e","g","a","c","l","o","u","d",".","c","l","u","b">>,    referer |-> <<"h","t","t","p","s",":","/","/","m","e","g","a","c","l","o","u","d",".","c","l","u","b","/">>],
       [domain |-> <<"v","m","e","a","s",".","c","l","o","u","d">>,    origin |-> <<"h","t","t","p","s",":","/","/","v","i","d","m","o","l","y",".","t","o">>,        referer |-> <<"h","t","t","p","s",":","/","/","v","i","d","m","o","l","y",".","t","o","/">>],
       [domain |-> <<"e","m","b","e","d",".","s","u">>,       origin |-> <<"h","t","t","p","s",":","/","/","e","m","b","e","d",".","s","u">>,          referer |-> <<"h","t","t","p","s",":","/","/","e","m","b","e","d",".","s","u","/">>],
       [domain |-> <<"a","k","a","m","a","i","z","e","d",".","n","e","t">>,  origin |-> <<"h","t","t","p","s",":","/","/","b","l",".","k","r","u","s","s","d","o","m","i",".","c","o","m">>,  referer |-> <<"h","t","t","p","s",":","/","/","b","l",".","k","r","u","s","s","d","o","m","i",".","c","o","m","/">>] >>

\* the table of the module.exports handler of proxy.js
DOMAIN_HEADERS_module ==
    << [domain |-> <<"k","w","i","k","i","e",".","r","u">>,       origin |-> <<"h","t","t","p","s",":","/","/","k","w","i","k",".","s","i">>,           referer |-> <<"h","t","t","p","s",":","/","/","k","w","i","k",".","s","i","/">>],
       [domain |-> <<"p","a","d","o","r","u","p","a","d","o",".","r","u">>,   origin |-> <<"h","t","t","p","s",":","/","/","k","w","i","k",".","s","i">>,           referer |-> <<"h","t","t","p","s",":","/","/","k","w","i","k",".","s","i","/">>],
       [domain |-> <<"k","r","u","s","s","d","o","m","i",".","c","o","m">>,   origin |-> <<"h","t","t","p","s",":","/","/","h","l","s",".","k","r","u","s","s","d","o","m","i",".","c","o","m">>, referer |-> <<"h","t","t","p","s",":","/","/","h","l","s",".","k","r","u","s","s","d","o","m","i",".","c","o","m","/">>],
       [domain |-> <<"m","e","g","a","c","l","o","u","d",".","b","l","o","g">>,  origin |-> <<"h","t","t","p","s",":","/","/","m","e","g","a","c","l","o","u","d",".","b","l","o","g">>,    referer |-> <<"h","t","t","p","s",":","/","/","m","e","g","a","c","l","o","u","d",".","b","l","o","g","/">>],
       [domain |-> <<"m","e","g","a","c","l","o","u","d",".","c","l","u","b">>,  origin |-> <<"h","t","t","p","s",":","/","/","m","e","g","a","c","l","o","u","d",".","c","l","u","b">>,    referer |-> <<"h","t","t","p","s",":","/","/","m","e","g","a","c","l","o","u","d",".","c","l","u","b","/">>],
       [domain |-> <<"v","m","e","a","s",".","c","l","o","u","d">>,     origin |-> <<"h","t","t","p","s",":","/","/","v","i","d","m","o","l","y",".","t","o">>,        referer |-> <<"h","t","t","p","s",":","/","/","v","i","d","m","o","l","y",".","t","o","/">>],
       [domain |-> <<"e","m","b","e","d",".","s","u">>,        origin |-> <<"h","t","t","p","s",":","/","/","e","m","b","e","d",".","s","u">>,          referer |-> <<"h","t","t","p","s",":","/","/","e","m","b","e","d",".","s","u","/">>],
       [domain |-> <<"a","k","a","m","a","i","z","e","d",".","n","e","t">>,   origin |-> <<"h","t","t","p","s",":","/","/","b","l",".","k","r","u","s","s","d","o","m","i",".","c","o","m">>,  referer |-> <<"h","t","t","p","s",":","/","/","b","l",".","k","r","u","s","s","d","o","m","i",".","c","o","m","/">>],
       [domain |-> <<"p","r","e","m","i","l","k","y","w","a","y",".","c","o","m">>, origin |-> <<"h","t","t","p","s",":","/","/","u","q","l","o","a","d","s",".","x","y","z">>,       referer |-> <<"h","t","t","p","s",":","/","/","u","q","l","o","a","d","s",".","x","y","z","/">>],
       [domain |-> <<"a","n","i","h","1",".","t","o","p">>,       origin |-> <<"h","t","t","p","s",":","/","/","e","e",".","a","n","i","h","1",".","t","o","p">>,      referer |-> <<"h","t","t","p","s",":","/","/","e","e",".","a","n","i","h","1",".","t","o","p","/">>],
       [domain |-> <<"x","y","k","3",".","t","o","p">>,        origin |-> <<"h","t","t","p","s",":","/","/","e","e",".","a","n","i","h","1",".","t","o","p">>,      referer |-> <<"h","t","t","p","s",":","/","/","e","e",".","a","n","i","h","1",".","t","o","p","/">>] >>

domainTable(v) == IF v = JsModule THEN DOMAIN_HEADERS_module ELSE DOMAIN_HEADERS

\* the first entry of the table whose domain the hostname includes, {} if none:
\* a function from the header names it sets to their values
entryHeaders(table, k) ==
    IF k = 0 THEN [n \in {} |-> Absent]
    ELSE [n \in {"origin", "referer"} |->
             IF n = "origin" THEN table[k].origin ELSE table[k].referer]

getDomainHeaders(table, hostname) ==
    entryHeaders(table, minOr({k \in 1..Len(table) : includes(hostname, table[k].domain)}, 0))

DefaultUserAgent == <<"M","o","z","i","l","l","a","/","5",".","0"," ","(","W","i","n","d","o","w","s"," ","N","T"," ","1","0",".","0",";"," ","W","i","n","6","4",";"," ","x","6","4",")"," ","A","p","p","l","e","W","e","b","K","i","t","/","5","3","7",".","3","6">>

\* the headers object of the full handlers: defaults, ...getDomainHeaders(url.hostname),
\* then headers['Range'] when req.headers.range is truthy
mergeHeaders(dom, range) ==
    [n \in ReqHeaderNames |->
        CASE n = "User-Agent"      -> DefaultUserAgent
          [] n = "Accept"          -> <<"*","/","*">>
          [] n = "Accept-Language" -> <<"e","n","-","U","S",",","e","n",";","q","=","0",".","9">>
          [] n = "Range"           -> IF truthy(range) THEN range ELSE Absent
          [] OTHER                 -> IF n \in DOMAIN dom THEN dom[n] ELSE Absent]

buildHeaders(v, tUrl, range) ==
    mergeHeaders(getDomainHeaders(domainTable(v), URL(tUrl).hostname), range)

\* the headers object of the node-fetch handler
simpleHeaders(userAgent) ==
    [n \in ReqHeaderNames |->
        IF n = "User-Agent"
        THEN (IF truthy(userAgent) THEN userAgent ELSE <<"M","o","z","i","l","l","a","/","5",".","0">>)
        ELSE Absent]

(***************************************************************************)
(* The response object res.                                                *)
(***************************************************************************)
NoJson == [f \in JsonFields |-> Absent]

FreshRes == [status |-> 0, headers |-> [n \in ResHeaderNames |-> Absent],
             kind |-> "none", json |-> NoJson, data |-> <<>>]

setHeader(r, n, v) == [r EXCEPT !.headers[n] = v]

\* Object.entries(CORS_HEADERS).forEach(([k, v]) => res.setHeader(k, v))
setCors(r) ==
    [r EXCEPT !.headers = [n \in ResHeaderNames |->
                              IF n \in CorsNames THEN CORS_HEADERS[n] ELSE r.headers[n]]]

\* if (value) res.setHeader(name, value)
forward(r, n, v) == IF truthy(v) THEN setHeader(r, n, v) ELSE r

\* res.status(code).json(fields)
sendJson(r, code, fields) ==
    [r EXCEPT !.status = code, !.kind = "json",
              !.json = [f \in JsonFields |-> IF f \in DOMAIN fields THEN fields[f] ELSE Absent]]

\* res.status(code).send(data)
sendData(r, code, kind, data) == [r EXCEPT !.status = code, !.kind = kind, !.data = data]

\* res.status(code).end()
sendEnd(r, code) == [r EXCEPT !.status = code, !.kind = "empty"]

Usage == <<"A","d","d"," ","?","u","r","l","=","h","t","t","p","s",":","/","/","e","x","a","m","p","l","e",".","c","o","m","/","v","i","d","e","o",".","m","3","u","8">>
ExamplePath == <<"/","a","p","i","/","p","r","o","x","y","?","u","r","l","=","h","t","t","p","s",":","/","/","e","x","a","m","p","l","e",".","c","o","m","/","v","i","d","e","o",".","m","3","u","8">>

\* the 400 response of a handler
missingUrl(v, r, host) ==
    IF v = TsSimple
    THEN sendJson(r, 400, [error |-> <<"U","R","L"," ","p","a","r","a","m","e","t","e","r"," ","r","e","q","u","i","r","e","d">>])
    ELSE sendJson(setCors(setHeader(r, "Content-Type", <<"a","p","p","l","i","c","a","t","i","o","n","/","j","s","o","n">>)), 400,
                  [error   |-> <<"M","i","s","s","i","n","g"," ","u","r","l"," ","p","a","r","a","m","e","t","e","r">>,
                   usage   |-> Usage,
                   example |-> IF v = JsDefault THEN host \o ExamplePath
                               ELSE <<"h","t","t","p","s",":","/","/">> \o host \o ExamplePath])

\* the catch block of a handler
catchError(v, r, message, tUrl) ==
    IF v = TsSimple
    THEN sendJson(r, 500, [error |-> <<"P","r","o","x","y"," ","r","e","q","u","e","s","t"," ","f","a","i","l","e","d">>])
    ELSE sendJson(setCors(setHeader(r, "Content-Type", <<"a","p","p","l","i","c","a","t","i","o","n","/","j","s","o","n">>)), 500,
                  [error   |-> <<"P","r","o","x","y"," ","r","e","q","u","e","s","t"," ","f","a","i","l","e","d">>,
                   message |-> IF v = TsDefault /\ ~truthy(message)
                               THEN <<"U","n","k","n","o","w","n"," ","e","r","r","o","r">> ELSE message,
                   target  |-> tUrl])

\* the OPTIONS response of a full handler
preflight(v, r) ==
    IF v = JsDefault
    THEN sendEnd(setHeader(setHeader(setHeader(r,
                     ACAO, <<"*">>), ACAM, <<"G","E","T",","," ","P","O","S","T",","," ","O","P","T","I","O","N","S">>), ACAH, <<"C","o","n","t","e","n","t","-","T","y","p","e",","," ","R","a","n","g","e">>),
                 204)
    ELSE sendEnd(setCors(r), 204)

\* targetUrl.endsWith('.m3u8') || response.headers.get('content-type')?.includes('mpegurl')
isM3U8(tUrl, contentType) ==
    \/ endsWith(tUrl, <<".","m","3","u","8">>)
    \/ (contentType # Absent /\ includes(contentType, <<"m","p","e","g","u","r","l">>))

\* forwardHeaders without the line that copies Content-Range
forwardHeaders_noContentRange(r, up) ==
    forward(forward(forward(setCors(r),
        "Content-Type",   up.contentType),
        "Content-Length", up.contentLength),
        "Accept-Ranges",  up.acceptRanges)

\* the full handlers between the classification and the await of arrayBuffer()
forwardHeaders(r, up) ==
    forward(forward(forward(forward(setCors(r),
        "Content-Type",   up.contentType),
        "Content-Length", up.contentLength),
        "Content-Range",  up.contentRange),
        "Accept-Ranges",  up.acceptRanges)

\* the playlist response of the full handlers
playlistResponse(r, text, host, tUrl) ==
    sendData(setHeader(setCors(setHeader(r,
                 "Content-Type", <<"a","p","p","l","i","c","a","t","i","o","n","/","v","n","d",".","a","p","p","l","e",".","m","p","e","g","u","r","l">>)),
                 "Cache-Control", <<"p","u","b","l","i","c",","," ","m","a","x","-","a","g","e","=","3","0","0">>),
             200, "text", processM3U8(text, <<"h","t","t","p","s",":","/","/">> \o host \o <<"/","a","p","i","/","p","r","o","x","y">>, tUrl))

\* the response of the node-fetch handler
simpleResponse(r, up) ==
    sendData(setHeader(setHeader(r, ACAO, <<"*">>),
                 "Content-Type", IF truthy(up.contentType) THEN up.contentType ELSE <<"t","e","x","t","/","p","l","a","i","n">>),
             up.status, "text", up.body)

(***************************************************************************)
(* Requests and upstream responses of the model.                           *)
(***************************************************************************)
Methods == {"GET", "OPTIONS"}
Targets == {Absent, <<>>, T_index, T_query, T_param, T_seg, T_nopath, T_kwik, T_anih, T_bad}
Ranges == {Absent, <<>>, <<"b","y","t","e","s","=","0","-","1","0","2","3">>}
UserAgents == {<<"v","l","c","/","3">>, <<"c","u","r","l","/","8">>}

Requests == [method : Methods, url : Targets, range : Ranges, userAgent : UserAgents,
             host : {ProxyHost}]

Bodies == {join(<<L_tag, L_rel>>, <<LF>>), L_key}

UpstreamResponses ==
    [status        : {200, 206, 404},
     contentType   : {Absent, <<"a","p","p","l","i","c","a","t","i","o","n","/","v","n","d",".","a","p","p","l","e",".","m","p","e","g","u","r","l">>, <<"v","i","d","e","o","/","m","p","2","t">>},
     contentLength : {Absent, <<"9">>},
     contentRange  : {Absent, <<"b","y","t","e","s"," ","0","-","1","0","2","3","/","4","0","9","6">>},
     acceptRanges  : {Absent, <<"b","y","t","e","s">>},
     body          : Bodies]

\* the value of response before fetch has resolved
NoResponse == [status |-> 0, contentType |-> Absent, contentLength |-> Absent,
               contentRange |-> Absent, acceptRanges |-> Absent, body |-> <<>>]

FetchErrors == {<<"f","e","t","c","h"," ","f","a","i","l","e","d">>, <<"T","h","e"," ","o","p","e","r","a","t","i","o","n"," ","w","a","s"," ","a","b","o","r","t","e","d"," ","d","u","e"," ","t","o"," ","t","i","m","e","o","u","t">>}
BodyErrors == {<<"t","e","r","m","i","n","a","t","e","d">>}

(***************************************************************************)
(* Spec: one request through a handler.                                    *)
(***************************************************************************)
RewriteIdle ==
    /\ content = None /\ baseUrl = None /\ targetUrl = None
    /\ out1 = None /\ out2 = None /\ rpc = "idle"

Init ==
    /\ variant \in Variants
    /\ req \in Requests
    /\ pc = "start"
    /\ fetched = <<>>
    /\ response = NoResponse
    /\ res = FreshRes
    /\ sends = 0
    /\ failure = Absent
    /\ RewriteIdle

Respond(r) ==
    /\ res' = r
    /\ sends' = sends + 1
    /\ pc' = "done"

\* if (req.method === 'OPTIONS') ...
Preflight ==
    /\ pc = "start"
    /\ variant \in FullVariants
    /\ req.method = "OPTIONS"
    /\ Respond(preflight(variant, res))
    /\ UNCHANGED <<variant, req, fetched, response, failure>>
    /\ UNCHANGED rvars

\* if (!targetUrl) ...
MissingUrl ==
    /\ pc = "start"
    /\ variant \in FullVariants => req.method # "OPTIONS"
    /\ ~truthy(req.url)
    /\ Respond(missingUrl(variant, res, req.host))
    /\ UNCHANGED <<variant, req, fetched, response, failure>>
    /\ UNCHANGED rvars

\* new URL(targetUrl) throws inside the try block
InvalidUrl ==
    /\ pc = "start"
    /\ variant \in FullVariants
    /\ req.method # "OPTIONS"
    /\ truthy(req.url)
    /\ ~URL(req.url).ok
    /\ failure' = <<"I","n","v","a","l","i","d"," ","U","R","L">>
    /\ Respond(catchError(variant, res, <<"I","n","v","a","l","i","d"," ","U","R","L">>, req.url))
    /\ UNCHANGED <<variant, req, fetched, response>>
    /\ UNCHANGED rvars

\* the call of fetch, up to its await
IssueFetch ==
    /\ pc = "start"
    /\ truthy(req.url)
    /\ variant \in FullVariants => (req.method # "OPTIONS" /\ URL(req.url).ok)
    /\ fetched' = Append(fetched,
          IF variant = TsSimple
          THEN [url |-> req.url, method |-> "GET", headers |-> simpleHeaders(req.userAgent)]
          ELSE [url |-> req.url, method |-> req.method,
                headers |-> buildHeaders(variant, req.url, req.range)])
    /\ pc' = "fetching"
    /\ UNCHANGED <<variant, req, response, res, sends, failure>>
    /\ UNCHANGED rvars

\* fetch resolves with the upstream's response
FetchResolved ==
    /\ pc = "fetching"
    /\ URL(req.url).ok
    /\ \E up \in UpstreamResponses :
          /\ response' = up
          /\ IF variant = TsSimple \/ isM3U8(req.url, up.contentType)
             THEN /\ pc' = "text"                       \* await response.text()
                  /\ UNCHANGED res
             ELSE /\ pc' = "arrayBuffer"                \* await response.arrayBuffer()
                  /\ res' = forwardHeaders(res, up)
    /\ UNCHANGED <<variant, req, fetched, sends, failure>>
    /\ UNCHANGED rvars

\* fetch rejects: the URL is no URL, the connection fails, the 25 s timeout aborts
FetchRejected ==
    /\ pc = "fetching"
    /\ \E msg \in FetchErrors :
          /\ failure' = msg
          /\ Respond(catchError(variant, res, msg, req.url))
    /\ UNCHANGED <<variant, req, fetched, response>>
    /\ UNCHANGED rvars

\* the body has been read: the rest of the try block
BodyResolved ==
    /\ pc \in {"text", "arrayBuffer"}
    /\ Respond(IF variant = TsSimple THEN simpleResponse(res, response)
               ELSE IF pc = "text"
               THEN playlistResponse(res, response.body, req.host, req.url)
               ELSE sendData(res, response.status, "buffer", response.body))
    /\ UNCHANGED <<variant, req, fetched, response, failure>>
    /\ UNCHANGED rvars

\* reading the body fails
BodyRejected ==
    /\ pc \in {"text", "arrayBuffer"}
    /\ \E msg \in BodyErrors :
          /\ failure' = msg
          /\ Respond(catchError(variant, res, msg, req.url))
    /\ UNCHANGED <<variant, req, fetched, response>>
    /\ UNCHANGED rvars

Next ==
    \/ Preflight
    \/ MissingUrl
    \/ InvalidUrl
    \/ IssueFetch
    \/ FetchResolved
    \/ FetchRejected
    \/ BodyResolved
    \/ BodyRejected

Spec == Init /\ [][Next]_vars

(***************************************************************************)
(* Properties of processM3U8, checked under RewriteSpec.                   *)
(***************************************************************************)

\* C1: the rewriter is idempotent: rewriting its own output changes nothing,
\* for segment lines and for lines with URI="..." attributes alike.
C1_Idempotent == rpc = "twice" => out2 = out1

\* a line the segment rule of the specification applies to
segmentLine(line, bUrl) ==
    /\ ~includes(line, <<"U","R","I","=","\"">>)
    /\ trim(line) # <<>>
    /\ ~startsWith(trim(line), <<"#">>)
    /\ ~startsWith(trim(line), bUrl)

\* what the specification puts in place of such a line: the line itself when it is
\* an absolute URL, https: + line when it is scheme-relative, the line resolved
\* against the base path otherwise, and the line unchanged when that fails
specSegment(line, trm, bUrl, base) ==
    IF URL(trm).ok THEN proxied(bUrl, trm)
    ELSE IF startsWith(trm, <<"/","/">>) THEN proxied(bUrl, <<"h","t","t","p","s",":">> \o trm)
    ELSE proxiedOr(bUrl, URLWithBase(trm, base), line)

linesAgree(ins, outs, bUrl, base) ==
    /\ Len(outs) = Len(ins)
    /\ \A k \in 1..Len(ins) :
          segmentLine(ins[k], bUrl) => outs[k] = specSegment(ins[k], trim(ins[k]), bUrl, base)

\* C8: every line without URI="..." whose trimmed text is non-empty, starts with
\* neither # nor the proxy base URL, is replaced by <base>?url=<encoded A>, A being
\* the line if it is an absolute URL, https: + line if it is scheme-relative, the
\* line resolved against the base path otherwise; unchanged if resolution fails.
C8_SegmentLines ==
    rpc = "once" => linesAgree(split(content), split(out1), baseUrl, basePath(targetUrl))

\* the absolute URL the specification gives an attribute value
specUriAbs(uri, base) ==
    IF URL(uri).ok THEN uri ELSE hrefOr(URLWithBase(uri, base), uri)

\* the line with every URI="..." value replaced as the specification says, scanned
\* as the regular expression /URI="([^"]+)"/g scans it
RECURSIVE specReplace(_, _, _)
specMatch(line, bUrl, base, i, tl, q) ==
    IF q > Len(tl) \/ q = 1
    THEN SubSeq(line, 1, i) \o specReplace(SubSeq(line, i + 1, Len(line)), bUrl, base)
    ELSE SubSeq(line, 1, i - 1)
            \o uriAttr(bUrl, specUriAbs(SubSeq(tl, 1, q - 1), base))
            \o specReplace(SubSeq(tl, q + 1, Len(tl)), bUrl, base)

specFrom(line, bUrl, base, i) ==
    IF i = 0 THEN line
    ELSE specMatch(line, bUrl, base, i, SubSeq(line, i + 5, Len(line)),
                   firstOf(SubSeq(line, i + 5, Len(line)), {"\""}))

specReplace(line, bUrl, base) == specFrom(line, bUrl, base, indexOf(line, <<"U","R","I","=","\"">>))

uriLinesAgree(ins, outs, bUrl, base) ==
    /\ Len(outs) = Len(ins)
    /\ \A k \in 1..Len(ins) :
          includes(ins[k], <<"U","R","I","=","\"">>) => outs[k] = specReplace(ins[k], bUrl, base)

\* C9: in every line with URI="..." attributes each attribute value is replaced by
\* <base>?url=<encoded absolute URL>, the value being resolved against the base path
\* when it is not already absolute (kept verbatim when resolution fails), and the
\* rest of the line is unchanged.
C9_UriLines ==
    rpc = "once" => uriLinesAgree(split(content), split(out1), baseUrl, basePath(targetUrl))

(***************************************************************************)
(* Properties of the handlers, checked under Spec.                         *)
(***************************************************************************)
Done == pc = "done"

\* C2: every response of every handler carries the full CORS header set.
C2_CorsOnEveryResponse ==
    Done => /\ res.headers[ACAO] = <<"*">>
            /\ res.headers[ACAM] # Absent
            /\ res.headers[ACAH] # Absent
            /\ res.headers[ACEH] = <<"C","o","n","t","e","n","t","-","L","e","n","g","t","h",","," ","C","o","n","t","e","n","t","-","R","a","n","g","e">>

\* C3: a non-OPTIONS request whose url parameter is missing or is no URL gets a 400
\* with the JSON fields error, usage and example, and no upstream fetch is issued.
C3_BadUrlIs400 ==
    (variant \in FullVariants /\ Done /\ req.method # "OPTIONS" /\ ~URL(req.url).ok)
        => /\ res.status = 400
           /\ res.kind = "json"
           /\ res.json["error"] # Absent
           /\ res.json["usage"] # Absent
           /\ res.json["example"] # Absent
           /\ fetched = <<>>

\* C4: a request that passed validation and then failed ends in exactly one
\* response, a 500 whose JSON body holds an error code, the failure message and
\* the target URL.
C4_FailureIs500WithDetail ==
    (Done /\ fetched # <<>> /\ failure # Absent)
        => /\ sends = 1
           /\ res.status = 500
           /\ res.kind = "json"
           /\ res.json["error"] # Absent
           /\ res.json["message"] = failure
           /\ res.json["target"] = req.url

\* the request reached the point where the full handler has called fetch
Fetching == variant \in FullVariants /\ pc # "start" /\ req.method # "OPTIONS" /\ URL(req.url).ok

\* the upstream answered 206 with a Content-Range
Partial == response.status = 206 /\ response.contentRange # Absent

RangePreserved == res.status = 206 /\ res.headers["Content-Range"] = response.contentRange

\* C5 as stated: the inbound Range reaches the upstream unchanged, and whenever the
\* upstream answers 206 with a Content-Range the response is a 206 with that
\* Content-Range.
C5_RangeAlwaysPreserved ==
    /\ (Fetching /\ truthy(req.range))
          => (Len(fetched) = 1 /\ fetched[1].headers["Range"] = req.range)
    /\ (variant \in FullVariants /\ Done /\ failure = Absent /\ Partial) => RangePreserved

\* C5 as amended: in the full handlers a non-empty inbound Range reaches the
\* upstream unchanged, and when the upstream answers 206 with a non-empty
\* Content-Range, the response is not classified as a playlist and its body is read,
\* the response is a 206 with that Content-Range.
C5_RangeForwarded ==
    /\ (Fetching /\ truthy(req.range))
          => (Len(fetched) = 1 /\ fetched[1].headers["Range"] = req.range)
    /\ (/\ variant \in FullVariants /\ Done /\ failure = Absent /\ Partial
        /\ truthy(response.contentRange)
        /\ ~isM3U8(req.url, response.contentType))
          => RangePreserved

C5_Witness ==
    /\ variant \in FullVariants /\ Done /\ failure = Absent
    /\ truthy(req.range)
    /\ Len(fetched) = 1 /\ fetched[1].headers["Range"] = <<"b","y","t","e","s","=","0","-","1","0","2","3">>
    /\ Partial /\ truthy(response.contentRange)
    /\ ~isM3U8(req.url, response.contentType)
    /\ res.status = 206 /\ res.headers["Content-Range"] = <<"b","y","t","e","s"," ","0","-","1","0","2","3","/","4","0","9","6">>

\* the response is the rewritten playlist
PlaylistResponse ==
    /\ res.status = 200
    /\ res.headers["Content-Type"] = <<"a","p","p","l","i","c","a","t","i","o","n","/","v","n","d",".","a","p","p","l","e",".","m","p","e","g","u","r","l">>
    /\ res.headers["Cache-Control"] = <<"p","u","b","l","i","c",","," ","m","a","x","-","a","g","e","=","3","0","0">>
    /\ res.data = processM3U8(response.body, ProxyBase, req.url)

\* the response is the upstream's body with the upstream's status
ForwardedResponse == res.status = response.status /\ res.data = response.body

\* the path of the target URL ends in .m3u8, or the upstream declares a playlist
specPlaylist ==
    \/ endsWith(URL(req.url).pathname, <<".","m","3","u","8">>)
    \/ (response.contentType # Absent /\ includes(response.contentType, <<"m","p","e","g","u","r","l">>))

\* C6: a successful upstream response is answered as a playlist exactly when the
\* path of the target URL ends in .m3u8 or the upstream Content-Type is the playlist
\* type, and is forwarded unmodified with the upstream status otherwise.
C6_PlaylistIffPathOrType ==
    (/\ variant \in FullVariants /\ Done /\ failure = Absent
     /\ response.status \in {200, 206})
        => IF specPlaylist THEN PlaylistResponse ELSE ForwardedResponse

\* the header set the specification gives the upstream request: the defaults, the
\* resolver's pair for the target hostname, the inbound Range
specHeaders ==
    mergeHeaders(getDomainHeaders(domainTable(variant), URL(req.url).hostname), req.range)

\* C7: the upstream request's headers are the fixed defaults overlaid with the
\* resolver's pair and the inbound Range; no other inbound header reaches it.
C7_UpstreamHeadersFixed ==
    \A k \in 1..Len(fetched) : fetched[k].headers = specHeaders

\* C10: a 500 response carries no header value taken from the upstream response.
C10_ErrorHasNoUpstreamHeaders ==
    (variant \in FullVariants /\ Done /\ failure # Absent)
        => /\ res.status = 500
           /\ res.headers["Content-Type"] = <<"a","p","p","l","i","c","a","t","i","o","n","/","j","s","o","n">>
           /\ res.headers["Content-Length"] = Absent
           /\ res.headers["Content-Range"] = Absent
           /\ res.headers["Accept-Ranges"] = Absent

(***************************************************************************)
(* What does hold where the properties above fail.                         *)
(***************************************************************************)

\* the lines without URI=" are the same after the second pass
unchangedSegments(first, second) ==
    /\ Len(second) = Len(first)
    /\ \A k \in 1..Len(first) : ~includes(first[k], <<"U","R","I","=","\"">>) => second[k] = first[k]

\* processM3U8 is idempotent on the lines it handles in the segment branch
SegmentLinesIdempotent == rpc = "twice" => unchangedSegments(split(out1), split(out2))

\* a string that starts with http without being a URL
httpPrefixed(s) == startsWith(s, <<"h","t","t","p">>) /\ ~URL(s).ok

\* the value of the attribute that starts at index i of the line
valueAt(line, i) ==
    SubSeq(line, i + 5, i + 4 + firstOf(SubSeq(line, i + 5, Len(line)), {"\""}) - 1)

\* some URI="..." value of the line starts with http without being a URL
httpPrefixedValue(line) ==
    \E i \in 1..(Len(line) - 4) :
        /\ SubSeq(line, i, i + 4) = <<"U","R","I","=","\"">>
        /\ httpPrefixed(valueAt(line, i))

linesAgreeButHttp(ins, outs, bUrl, base) ==
    /\ Len(outs) = Len(ins)
    /\ \A k \in 1..Len(ins) :
          (segmentLine(ins[k], bUrl) /\ ~httpPrefixed(trim(ins[k])))
              => outs[k] = specSegment(ins[k], trim(ins[k]), bUrl, base)
    /\ \A k \in 1..Len(ins) :
          (includes(ins[k], <<"U","R","I","=","\"">>) /\ ~httpPrefixedValue(ins[k]))
              => outs[k] = specReplace(ins[k], bUrl, base)

\* segment lines and URI lines are rewritten as specified, but for the references
\* that start with http without being URLs
LinesRewrittenButHttpPrefixed ==
    rpc = "once" => linesAgreeButHttp(split(content), split(out1), baseUrl, basePath(targetUrl))

FullCors == \A n \in CorsNames : res.headers[n] = CORS_HEADERS[n]

\* the full handlers send the whole CORS set on every path but the preflight of
\* the default export of proxy.js
FullHandlersCors ==
    (variant \in FullVariants /\ Done /\ ~(variant = JsDefault /\ req.method = "OPTIONS"))
        => FullCors

\* in the full handlers a missing url is a 400 with error, usage and example, a url
\* that is no URL a 500, and neither issues a fetch
FullHandlersBadUrl ==
    (variant \in FullVariants /\ Done /\ req.method # "OPTIONS" /\ ~URL(req.url).ok)
        => /\ fetched = <<>>
           /\ res.kind = "json"
           /\ res.json["error"] # Absent
           /\ IF truthy(req.url)
              THEN res.status = 500 /\ res.json["target"] = req.url
              ELSE res.status = 400 /\ res.json["usage"] # Absent /\ res.json["example"] # Absent

\* in the full handlers every failure ends in one 500 with error, message, target
FullHandlersFailure ==
    (variant \in FullVariants /\ Done /\ failure # Absent)
        => /\ sends = 1
           /\ res.status = 500
           /\ res.kind = "json"
           /\ res.headers["Content-Type"] = <<"a","p","p","l","i","c","a","t","i","o","n","/","j","s","o","n">>
           /\ res.json["error"] # Absent
           /\ res.json["message"] = failure
           /\ res.json["target"] = req.url

\* every handler sends at most one response, and exactly one once it is done
OneResponse == sends = (IF Done THEN 1 ELSE 0)

=============================================================================
